---- MODULE Spec2Model ----
(***************************************************************************)
(* The file-backed inventory server of src/main.js: the item collection    *)
(* kept in db.json, the photo files <id>.jpg kept beside it, and the       *)
(* Express handlers that read and rewrite them.                            *)
(*                                                                         *)
(* Every handler body of main.js consists of synchronous calls only        *)
(* (fs.readFileSync, fs.writeFileSync, fs.existsSync, fs.unlinkSync), so   *)
(* Node runs it to completion in one event-loop turn: requests that are    *)
(* in flight at the same time are served one handler after another, in     *)
(* any order.  Spec and SpecUpdate take one step per request.  SpecSteps   *)
(* also takes one step per disk access of a handler, so that the process   *)
(* can stop between two of them.                                           *)
(***************************************************************************)
EXTENDS Integers, Sequences, FiniteSets, TLC

VARIABLES
    dbFile,   \* the array stored in db.json (main.js:15-16, 44-50)
    files,    \* the photo files of CACHE_DIR: file name -> bytes (main.js:56-58)
    req,      \* the request being served, or served last
    res,      \* the response to req
    issued,   \* the ids that 201 responses have handed to clients (main.js:101)
    pc,       \* the position of the server process inside a handler
    local     \* the handler's local variables while it is between two disk effects

vars == <<dbFile, files, req, res, issued, pc, local>>

\* Register is not taken once the next id would exceed MaxId.
MaxId == 2

----------------------------------------------------------------------------
(* Values *)

Undefined == "undefined"
Null == "null"

\* inventory_name / name as a request may carry it
NameInputs == {"", "Drill", "Saw"}
\* description as a request may carry it
DescInputs == {Undefined, "Cordless"}
\* req.file: absent, or the uploaded buffer
FileInputs == {Undefined, "JPEG-A", "JPEG-B"}

\* JavaScript truthiness of a body field: undefined, null and "" are falsy
Truthy(v) == v # Undefined /\ v # Null /\ v # ""

Digits == <<"0", "1", "2", "3", "4", "5", "6", "7", "8", "9">>

DigitVal(c) == (CHOOSE i \in DOMAIN Digits : Digits[i] = c) - 1

IsDigit(c) == \E i \in DOMAIN Digits : Digits[i] = c

\* isNaN(Number(p)) for a path segment p, given as its characters
isNaN(p) == \E i \in DOMAIN p : ~IsDigit(p[i])

RECURSIVE Number(_)
\* Number(p) for a path segment of decimal digits
Number(p) ==
    IF p = << >> THEN 0
    ELSE 10 * Number(SubSeq(p, 1, Len(p) - 1)) + DigitVal(p[Len(p)])

RECURSIVE Decimal(_)
\* the decimal characters of n >= 0, as a client writes an id into a path
Decimal(n) ==
    IF n < 10 THEN <<Digits[n + 1]>>
    ELSE Decimal(n \div 10) \o <<Digits[(n % 10) + 1]>>

\* :id as requests carry it: the ids the server can hold, and one that is
\* no number
IdParams == {Decimal(i) : i \in 1..MaxId} \cup {<<"a", "b", "c">>}

NoParam == << >>

\* `${id}.jpg`
PhotoName(id) == ToString(id) \o ".jpg"

\* path.join(CACHE_DIR, `${id}.jpg`): the file's name inside CACHE_DIR
photoFile(id) == ToString(id) \o ".jpg"

existsSync(fs, file) == file \in DOMAIN fs

\* writeFileSync with the flag "wx" would keep a file that is there
writeFileSyncKeepsExisting(fs, file, buffer) ==
    [f \in DOMAIN fs \cup {file} |-> IF f \in DOMAIN fs THEN fs[f] ELSE buffer]

writeFileSync(fs, file, buffer) ==
    [f \in DOMAIN fs \cup {file} |-> IF f = file THEN buffer ELSE fs[f]]

unlinkSync(fs, file) == [f \in DOMAIN fs \ {file} |-> fs[f]]

readDB == dbFile

Max(S) == CHOOSE m \in S : \A x \in S : x <= m

\* the next id taken from the number of items
nextIdByLength(db) == Len(db) + 1

nextId(db) ==
    IF Len(db) > 0 THEN Max({db[i].id : i \in DOMAIN db}) + 1 ELSE 1

\* db.findIndex(x => x.id === id), counted from 1; 0 when there is none
findIndex(db, id) ==
    IF \E i \in DOMAIN db : db[i].id = id
    THEN CHOOSE i \in DOMAIN db :
            db[i].id = id /\ \A j \in DOMAIN db : db[j].id = id => i <= j
    ELSE 0

\* splice at the index counted from 1 as if it were counted from 0
spliceNext(db, index) == SubSeq(db, 1, index) \o SubSeq(db, index + 2, Len(db))

\* db.splice(index, 1)
splice(db, index) == SubSeq(db, 1, index - 1) \o SubSeq(db, index + 1, Len(db))

\* req.method, the route's path and req.params.id
Request(method, route, id) == [method |-> method, route |-> route, id |-> id]

NoRequest == Request("", "", NoParam)

Text(status, text) == [status |-> status, body |-> [text |-> text]]
Json(status, item) == [status |-> status, body |-> item]
SendFile(bytes) == [status |-> 200, body |-> [bytes |-> bytes]]

\* no response: nothing served yet, the handler still running, or the
\* connection dropped by a stop of the process
NoResponse == Text(0, "")

NoItem == [id |-> 0, name |-> "", description |-> "", photo |-> Null]

\* the handler's variables db, id, index and item; empty outside a handler
NoLocals == [db |-> << >>, id |-> 0, index |-> 0, item |-> NoItem]

Init ==
    /\ dbFile = << >>
    /\ files = [f \in {} |-> ""]
    /\ req = NoRequest
    /\ res = NoResponse
    /\ issued = {}
    /\ pc = "idle"
    /\ local = NoLocals

----------------------------------------------------------------------------
(* The handlers' computations *)

\* the item POST /register builds
NewItem(id, name, description, file) ==
    [id |-> id, name |-> name,
     description |-> IF Truthy(description) THEN description ELSE "",
     photo |-> IF file # Undefined THEN PhotoName(id) ELSE Null]

\* POST /register without its photo write
RegisterFilesSkipped(fs, id, file) == fs

\* the photo directory after POST /register's optional photo write
RegisterFiles(fs, id, file) ==
    IF file # Undefined THEN writeFileSync(fs, photoFile(id), file) ELSE fs

\* db.push(item)
push(db, item) == Append(db, item)

\* PUT /inventory/:id assigning both fields whatever the request carries
UpdatedItemOverwritesAll(item, name, description) ==
    [item EXCEPT !.name = name, !.description = description]

\* the item PUT /inventory/:id leaves at index
UpdatedItem(item, name, description) ==
    [item EXCEPT !.name = IF Truthy(name) THEN name ELSE @,
                 !.description = IF Truthy(description) THEN description ELSE @]

\* the item PUT /inventory/:id/photo leaves at index
PhotoItem(item, id) == [item EXCEPT !.photo = PhotoName(id)]

\* DELETE /inventory/:id without its unlink
DeleteFilesKeepsPhoto(fs, id) == fs

\* the photo directory after DELETE /inventory/:id's unlink
DeleteFiles(fs, id) ==
    IF existsSync(fs, photoFile(id)) THEN unlinkSync(fs, photoFile(id)) ELSE fs

----------------------------------------------------------------------------
(* One step per handled request *)

Answer(r, response) ==
    /\ req' = r
    /\ res' = response

\* handlers that await their file access let the next request in
IdleAlways == TRUE

\* A handler starts only when no other handler is running: every handler
\* body is a run of synchronous calls, so the event loop takes up the next
\* request after the running handler has returned.
Idle == pc = "idle"

Register(name, description, file) ==
    LET r == Request("POST", "/register", NoParam)
        db == readDB
        id == nextId(db)
        item == NewItem(id, name, description, file)
    IN  /\ Idle
        /\ IF ~Truthy(name)
           THEN /\ Answer(r, Text(400, "inventory_name is required"))
                /\ UNCHANGED <<dbFile, files, issued, pc, local>>
           ELSE /\ id <= MaxId
                /\ files' = RegisterFiles(files, id, file)
                /\ dbFile' = push(db, item)
                /\ issued' = issued \cup {id}
                /\ Answer(r, Json(201, item))
                /\ UNCHANGED <<pc, local>>

GetInventory ==
    /\ Idle
    /\ Answer(Request("GET", "/inventory", NoParam),
              Json(200, [items |-> readDB]))
    /\ UNCHANGED <<dbFile, files, issued, pc, local>>

\* the response of GET /inventory/:id
GetItemResponse(db, p) ==
    IF isNaN(p) THEN Text(400, "ID must be a number")
    ELSE IF findIndex(db, Number(p)) = 0 THEN Text(404, "Not found")
    ELSE Json(200, db[findIndex(db, Number(p))])

GetItem(p) ==
    /\ Idle
    /\ Answer(Request("GET", "/inventory/:id", p),
              GetItemResponse(readDB, p))
    /\ UNCHANGED <<dbFile, files, issued, pc, local>>

Update(p, name, description) ==
    LET r == Request("PUT", "/inventory/:id", p)
        db == readDB
        index == findIndex(db, Number(p))
    IN  /\ Idle
        /\ IF isNaN(p)
           THEN /\ Answer(r, Text(400, "ID must be a number"))
                /\ UNCHANGED dbFile
           ELSE IF index = 0
           THEN /\ Answer(r, Text(404, "Not found"))
                /\ UNCHANGED dbFile
           ELSE LET item == UpdatedItem(db[index], name, description)
                IN  /\ dbFile' = [db EXCEPT ![index] = item]
                    /\ Answer(r, Json(200, item))
        /\ UNCHANGED <<files, issued, pc, local>>

\* the response of GET /inventory/:id/photo
GetPhotoResponse(fs, p) ==
    IF isNaN(p) THEN Text(400, "ID must be a number")
    ELSE IF ~existsSync(fs, photoFile(Number(p))) THEN Text(404, "Photo not found")
    ELSE SendFile(fs[photoFile(Number(p))])

GetPhoto(p) ==
    /\ Idle
    /\ Answer(Request("GET", "/inventory/:id/photo", p),
              GetPhotoResponse(files, p))
    /\ UNCHANGED <<dbFile, files, issued, pc, local>>

PutPhoto(p, file) ==
    LET r == Request("PUT", "/inventory/:id/photo", p)
        id == Number(p)
        db == readDB
        index == findIndex(db, id)
    IN  /\ Idle
        /\ IF isNaN(p)
           THEN /\ Answer(r, Text(400, "ID must be a number"))
                /\ UNCHANGED <<dbFile, files>>
           ELSE IF index = 0
           THEN /\ Answer(r, Text(404, "Not found"))
                /\ UNCHANGED <<dbFile, files>>
           ELSE IF file = Undefined
           THEN /\ Answer(r, Text(400, "No photo uploaded"))
                /\ UNCHANGED <<dbFile, files>>
           ELSE LET item == PhotoItem(db[index], id)
                IN  /\ files' = writeFileSync(files, photoFile(id), file)
                    /\ dbFile' = [db EXCEPT ![index] = item]
                    /\ Answer(r, Json(200, item))
        /\ UNCHANGED <<issued, pc, local>>

Delete(p) ==
    LET r == Request("DELETE", "/inventory/:id", p)
        id == Number(p)
        db == readDB
        index == findIndex(db, id)
    IN  /\ Idle
        /\ IF isNaN(p)
           THEN /\ Answer(r, Text(400, "ID must be a number"))
                /\ UNCHANGED <<dbFile, files>>
           ELSE IF index = 0
           THEN /\ Answer(r, Text(404, "Not found"))
                /\ UNCHANGED <<dbFile, files>>
           ELSE /\ files' = DeleteFiles(files, id)
                /\ dbFile' = splice(db, index)
                /\ Answer(r, Text(200, "Deleted"))
        /\ UNCHANGED <<issued, pc, local>>


\* the routes main.js registers, as <<method, path>>
Handlers ==
    {<<"POST", "/register">>, <<"GET", "/inventory">>,
     <<"GET", "/inventory/:id">>, <<"PUT", "/inventory/:id">>,
     <<"GET", "/inventory/:id/photo">>, <<"PUT", "/inventory/:id/photo">>,
     <<"DELETE", "/inventory/:id">>}

Routes == {h[2] : h \in Handlers}

\* the methods the last middleware lets through
valid == {"GET", "POST", "PUT", "DELETE"}

\* request methods (HEAD and OPTIONS, which Express answers itself for a
\* path that has a route, are left out)
Methods == valid \cup {"PATCH"}

\* A request no route takes reaches the middleware registered last: 405 for
\* a method outside valid, otherwise next(), and Express, with nothing left
\* to call, answers 404.
Unrouted(method, route) ==
    /\ Idle
    /\ <<method, route>> \notin Handlers
    /\ Answer(Request(method, route, NoParam),
              IF method \notin valid THEN Text(405, "Method Not Allowed")
              ELSE Text(404, "Cannot " \o method \o " " \o route))
    /\ UNCHANGED <<dbFile, files, issued, pc, local>>

\* the requests the handlers serve, in one step each, their body fields and
\* uploads drawn from the given sets
Handled(names, descriptions, uploads) ==
    \/ \E name \in names, description \in descriptions, file \in uploads :
          Register(name, description, file)
    \/ GetInventory
    \/ \E p \in IdParams : GetItem(p)
    \/ \E p \in IdParams, name \in names, description \in descriptions :
          Update(p, name, description)
    \/ \E p \in IdParams : GetPhoto(p)
    \/ \E p \in IdParams, file \in uploads : PutPhoto(p, file)
    \/ \E p \in IdParams : Delete(p)

\* the requests no handler serves
NotHandled == \E method \in Methods, route \in Routes : Unrouted(method, route)

\* Spec: every request, with or without a handler; names and uploads vary,
\* descriptions are left out.
NoDescription == {Undefined}

Next == Handled(NameInputs, NoDescription, FileInputs) \/ NotHandled

Spec == Init /\ [][Next]_vars

\* SpecUpdate: the handled requests with every name and description, and
\* one upload.
OneUpload == {Undefined, "JPEG-A"}

UpdateNext == Handled(NameInputs, DescInputs, OneUpload)

SpecUpdate == Init /\ [][UpdateNext]_vars

----------------------------------------------------------------------------
(* SpecSteps: a mutating handler runs through in one step, or takes one    *)
(* step per disk access; between two steps of a handler the process may    *)
(* stop: db.json and the photo files stay as they are, and the restarted   *)
(* process finds db.json and leaves it.                                    *)

\* POST /register up to and including the photo write (lines 85-95)
RegisterWritePhoto(name, description, file) ==
    LET db == readDB
        id == nextId(db)
    IN  /\ Idle
        /\ Truthy(name)
        /\ id <= MaxId
        /\ files' = RegisterFiles(files, id, file)
        /\ pc' = "register"
        /\ local' = [db |-> db, id |-> id, index |-> 0,
                     item |-> NewItem(id, name, description, file)]
        /\ Answer(Request("POST", "/register", NoParam), NoResponse)
        /\ UNCHANGED <<dbFile, issued>>

\* POST /register from db.push to the response (lines 97-101)
RegisterWriteDB ==
    /\ pc = "register"
    /\ dbFile' = push(local.db, local.item)
    /\ issued' = issued \cup {local.id}
    /\ res' = Json(201, local.item)
    /\ pc' = "idle"
    /\ local' = NoLocals
    /\ UNCHANGED <<files, req>>

\* PUT /inventory/:id up to the assignments to item (lines 176-184)
UpdateReadDB(p, name, description) ==
    LET db == readDB
        index == findIndex(db, Number(p))
    IN  /\ Idle
        /\ ~isNaN(p)
        /\ index # 0
        /\ pc' = "update"
        /\ local' = [db |-> db, id |-> Number(p), index |-> index,
                     item |-> UpdatedItem(db[index], name, description)]
        /\ Answer(Request("PUT", "/inventory/:id", p), NoResponse)
        /\ UNCHANGED <<dbFile, files, issued>>

\* the write of db.json and the response that end PUT /inventory/:id and
\* PUT /inventory/:id/photo (lines 186-188, 258-260)
ItemWriteDB ==
    /\ pc \in {"update", "putPhoto"}
    /\ dbFile' = [local.db EXCEPT ![local.index] = local.item]
    /\ res' = Json(200, local.item)
    /\ pc' = "idle"
    /\ local' = NoLocals
    /\ UNCHANGED <<files, req, issued>>

\* PUT /inventory/:id/photo persisting the record before it writes the file
PutPhotoWriteRecordFirst(p, file) ==
    LET id == Number(p)
        db == readDB
        index == findIndex(db, id)
    IN  /\ Idle
        /\ ~isNaN(p)
        /\ index # 0
        /\ file # Undefined
        /\ dbFile' = [db EXCEPT ![index] = PhotoItem(db[index], id)]
        /\ pc' = "putPhoto"
        /\ local' = [db |-> dbFile', id |-> id, index |-> index,
                     item |-> PhotoItem(db[index], id)]
        /\ Answer(Request("PUT", "/inventory/:id/photo", p), NoResponse)
        /\ UNCHANGED <<files, issued>>

\* PUT /inventory/:id/photo up to and including the photo write (lines 247-256)
PutPhotoWriteFile(p, file) ==
    LET id == Number(p)
        db == readDB
        index == findIndex(db, id)
    IN  /\ Idle
        /\ ~isNaN(p)
        /\ index # 0
        /\ file # Undefined
        /\ files' = writeFileSync(files, photoFile(id), file)
        /\ pc' = "putPhoto"
        /\ local' = [db |-> db, id |-> id, index |-> index,
                     item |-> PhotoItem(db[index], id)]
        /\ Answer(Request("PUT", "/inventory/:id/photo", p), NoResponse)
        /\ UNCHANGED <<dbFile, issued>>

\* DELETE /inventory/:id up to and including the unlink (lines 280-288)
DeleteUnlink(p) ==
    LET id == Number(p)
        db == readDB
        index == findIndex(db, id)
    IN  /\ Idle
        /\ ~isNaN(p)
        /\ index # 0
        /\ files' = DeleteFiles(files, id)
        /\ pc' = "delete"
        /\ local' = [db |-> db, id |-> id, index |-> index, item |-> db[index]]
        /\ Answer(Request("DELETE", "/inventory/:id", p), NoResponse)
        /\ UNCHANGED <<dbFile, issued>>

\* DELETE /inventory/:id from db.splice to the response (lines 290-293)
DeleteWriteDB ==
    /\ pc = "delete"
    /\ dbFile' = splice(local.db, local.index)
    /\ res' = Text(200, "Deleted")
    /\ pc' = "idle"
    /\ local' = NoLocals
    /\ UNCHANGED <<files, req, issued>>

\* the process stops inside a handler and is started again
Stop ==
    /\ pc # "idle"
    /\ pc' = "idle"
    /\ local' = NoLocals
    /\ res' = NoResponse
    /\ UNCHANGED <<dbFile, files, req, issued>>

\* SpecSteps: uploads vary, the items differ in id and photo only
OneName == {"", "Drill"}

\* a mutating handler takes its first step
Begin ==
    \/ \E name \in OneName, description \in NoDescription, file \in FileInputs :
          RegisterWritePhoto(name, description, file)
    \/ \E p \in IdParams, name \in OneName, description \in NoDescription :
          UpdateReadDB(p, name, description)
    \/ \E p \in IdParams, file \in FileInputs : PutPhotoWriteFile(p, file)
    \/ \E p \in IdParams : DeleteUnlink(p)

StepNext ==
    \/ Handled(OneName, NoDescription, FileInputs)
    \/ Begin
    \/ RegisterWriteDB
    \/ ItemWriteDB
    \/ DeleteWriteDB
    \/ Stop

SpecSteps == Init /\ [][StepNext]_vars

----------------------------------------------------------------------------
(* Properties *)

Ids(db) == {db[i].id : i \in DOMAIN db}
Items(db) == {db[i] : i \in DOMAIN db}

\* the step is a POST /register answered 201
Registered ==
    /\ res'.status = 201
    /\ \E name \in NameInputs, description \in DescInputs, file \in FileInputs :
          Register(name, description, file)

\* C1: the first successful register is assigned id 1, and every later one
\* an id greater than every id a register has assigned before, the ids of
\* deleted items included.
C1_IdsNeverReused ==
    [][Registered =>
          /\ issued = {} => res'.body.id = 1
          /\ \A earlier \in issued : res'.body.id > earlier]_vars

\* C2: every item of db.json whose photo is not null has photo = "<id>.jpg"
\* for its own id, and the file <id>.jpg is in the photo directory.
C2_PhotoRefNamesExistingFile ==
    \A item \in Items(dbFile) :
        item.photo # Null =>
            /\ item.photo = ToString(item.id) \o ".jpg"
            /\ item.photo \in DOMAIN files

\* an item deleted beside an item that keeps the photo a PUT gave it
C2_Witness ==
    /\ req = Request("DELETE", "/inventory/:id", Decimal(1))
    /\ res.status = 200
    /\ \E item \in Items(dbFile) : item.id = 2 /\ item.photo = "2.jpg"
    /\ files["2.jpg"] = "JPEG-B"

StrictlyAscending(db) ==
    \A i, j \in DOMAIN db : i < j => db[i].id < db[j].id

\* C6: GET /inventory returns every item of the registry exactly once, in
\* strictly ascending order of id.
C6_ListAscendingById ==
    /\ StrictlyAscending(dbFile)
    /\ (req.method = "GET" /\ req.route = "/inventory") =>
          /\ res.status = 200
          /\ res.body.items = dbFile
          /\ StrictlyAscending(res.body.items)
          /\ \A id \in Ids(dbFile) :
                Cardinality({i \in DOMAIN res.body.items :
                                res.body.items[i].id = id}) = 1

\* a list of two items returned, every id up to MaxId having been assigned
C6_Witness ==
    /\ req.method = "GET" /\ req.route = "/inventory"
    /\ Len(res.body.items) = 2
    /\ res.body.items[1].id = 1
    /\ res.body.items[2].id = 2
    /\ issued = 1..MaxId

\* C7: a request for the path of a route, with a method that has no handler
\* for that path, is answered 405.
C7_UnhandledMethodIs405 ==
    (req.route \in Routes /\ <<req.method, req.route>> \notin Handlers) =>
        res.status = 405

\* C10: a photo file <id>.jpg exists only if db.json holds an item with that
\* id whose photo is "<id>.jpg"; so GET /inventory/:id/photo answers 200
\* neither for an id without an item nor for an item whose photo is null.
C10_NoOrphanedBlob ==
    /\ \A f \in DOMAIN files :
          \E item \in Items(dbFile) :
              f = ToString(item.id) \o ".jpg" /\ item.photo = f
    /\ \A p \in IdParams :
          GetPhotoResponse(files, p).status = 200 =>
              \E item \in Items(dbFile) :
                  item.id = Number(p) /\ item.photo # Null
    /\ (req.method = "GET" /\ req.route = "/inventory/:id/photo"
            /\ res.status = 200) =>
          \E item \in Items(dbFile) :
              item.id = Number(req.id) /\ item.photo # Null

\* GET /inventory/2/photo answers 404 for an item without a photo, beside
\* an item that has one
C10_Witness ==
    /\ req = Request("GET", "/inventory/:id/photo", Decimal(2))
    /\ res.status = 404
    /\ Len(dbFile) = 2
    /\ dbFile[1].id = 1 /\ dbFile[1].photo = "1.jpg"
    /\ dbFile[2].id = 2 /\ dbFile[2].photo = Null
    /\ DOMAIN files = {"1.jpg"}

\* the step is a PUT /inventory/:id/photo of file answered 200
PutPhotoOk(p, file) ==
    /\ req' = Request("PUT", "/inventory/:id/photo", p)
    /\ res'.status = 200
    /\ PutPhoto(p, file)

\* the step is a DELETE /inventory/:id answered 200
DeleteOk(p) ==
    /\ req' = Request("DELETE", "/inventory/:id", p)
    /\ res'.status = 200
    /\ Delete(p)

\* the step is a POST /register that stores a photo for the id of p
RegisteredPhoto(p) ==
    /\ Registered
    /\ res'.body.photo # Null
    /\ ~isNaN(p)
    /\ res'.body.id = Number(p)

\* C3: after a successful PUT /inventory/:id/photo, GET /inventory/:id/photo
\* returns the uploaded bytes until a photo-put or a delete of that id; after
\* a successful DELETE /inventory/:id it returns 404 until a photo is stored
\* for that id again.  (What GET returns depends on the photo files alone,
\* so the steps that leave them as they are need no second look.)
C3_PhotoRoundTrip ==
    [][\A p \in IdParams :
          LET before == GetPhotoResponse(files, p)
              after == GetPhotoResponse(files', p)
              put == \E file \in FileInputs : PutPhotoOk(p, file)
          IN  /\ \A file \in FileInputs :
                    PutPhotoOk(p, file) => after = SendFile(file)
              /\ (/\ files' # files
                  /\ ~isNaN(p)
                  /\ Number(p) \in Ids(dbFile)
                  /\ ~put
                  /\ ~DeleteOk(p)) => after = before
              /\ DeleteOk(p) => after.status = 404
              /\ (/\ files' # files
                  /\ before.status = 404
                  /\ ~put
                  /\ ~RegisteredPhoto(p)) => after.status = 404
              /\ (req' = Request("GET", "/inventory/:id/photo", p) /\ GetPhoto(p))
                    => res' = before]_vars

\* GET /inventory/1/photo returns JPEG-B for an item that holds a photo
C3_Witness ==
    /\ req = Request("GET", "/inventory/:id/photo", Decimal(1))
    /\ res = SendFile("JPEG-B")
    /\ \E item \in Items(dbFile) : item.id = 1 /\ item.photo = "1.jpg"

\* C4: a successful DELETE /inventory/:id is followed, as long as no register
\* runs, by 404 for GET /inventory/:id and by 404 for a second DELETE of the
\* id, which changes nothing.
C4_DeletedStaysNotFound ==
    [][\A p \in IdParams :
          ~isNaN(p) =>
              /\ DeleteOk(p) =>
                    /\ Number(p) \notin Ids(dbFile')
                    /\ GetItemResponse(dbFile', p).status = 404
              /\ (Number(p) \notin Ids(dbFile) /\ ~Registered) =>
                    /\ Number(p) \notin Ids(dbFile')
                    /\ (req' = Request("GET", "/inventory/:id", p) /\ GetItem(p))
                          => res'.status = 404
                    /\ (req' = Request("DELETE", "/inventory/:id", p) /\ Delete(p))
                          => (res'.status = 404 /\ UNCHANGED <<dbFile, files>>)]_vars

\* a second DELETE /inventory/1 answered 404: id 1 was assigned and is gone,
\* item 2 is still there
C4_Witness ==
    /\ req = Request("DELETE", "/inventory/:id", Decimal(1))
    /\ res.status = 404
    /\ 1 \in issued
    /\ Ids(dbFile) = {2}

\* the request supplies the field with a non-empty value
Supplied(v) == v \notin {Undefined, ""}

\* C5: PUT /inventory/:id on an existing item overwrites name and description
\* only where the request supplies a non-empty value, and leaves the other
\* field, the item's id and photo, and every other item unchanged.
C5_PartialUpdate ==
    [][\A p \in IdParams, name \in NameInputs, description \in DescInputs :
          (/\ req' = Request("PUT", "/inventory/:id", p)
           /\ res'.status = 200
           /\ Update(p, name, description)) =>
              LET index == findIndex(dbFile, Number(p))
                  old == dbFile[index]
                  new == dbFile'[index]
              IN  /\ Len(dbFile') = Len(dbFile)
                  /\ \A j \in DOMAIN dbFile : j # index => dbFile'[j] = dbFile[j]
                  /\ new.id = old.id
                  /\ new.photo = old.photo
                  /\ new.name = IF Supplied(name) THEN name ELSE old.name
                  /\ new.description =
                        IF Supplied(description) THEN description
                        ELSE old.description
                  /\ res'.body = new
                  /\ files' = files]_vars

\* a PUT /inventory/1 answered with the item as it stands: renamed, its
\* description set, its photo kept, beside a second item
C5_Witness ==
    /\ req = Request("PUT", "/inventory/:id", Decimal(1))
    /\ res.status = 200
    /\ res.body = [id |-> 1, name |-> "Saw", description |-> "Cordless",
                   photo |-> "1.jpg"]
    /\ Len(dbFile) = 2
    /\ dbFile[1] = res.body
    /\ dbFile[2].name = "Drill"

\* the id the request of the step is about; 0 for POST /register
Target == IF req'.route = "/register" THEN 0 ELSE Number(req'.id)

\* C8, as amended: concurrent mutating requests do not interleave.  A
\* handler rewrites db.json from the array it read with nothing written in
\* between, so every rewrite keeps the items of the other requests and
\* holds the effect of its own, which the 200 or 201 it answers reports.
C8_NoLostUpdate ==
    [][dbFile' # dbFile =>
          /\ pc # "idle" => local.db = dbFile
          /\ \A item \in Items(dbFile) :
                item.id # Target => item \in Items(dbFile')
          /\ res'.status \in {200, 201}
          /\ req'.method = "DELETE" => Target \notin Ids(dbFile')
          /\ req'.method # "DELETE" => res'.body \in Items(dbFile')]_vars

\* a photo put on item 1 and answered 200 after item 2 was registered: both
\* are in db.json
C8_Witness ==
    /\ pc = "idle"
    /\ req = Request("PUT", "/inventory/:id/photo", Decimal(1))
    /\ res.status = 200
    /\ Len(dbFile) = 2
    /\ dbFile[1] = res.body
    /\ dbFile[1].photo = "1.jpg"
    /\ dbFile[2].id = 2

\* another request is taken up: by a handler that runs through, or by the
\* first step of one
ServeAnother == Handled(OneName, NoDescription, FileInputs) \/ Begin

\* C8, as claimed: the read and the rewrite of db.json of two mutating
\* requests interleave, that is, while a handler is between its read and its
\* rewrite another request can be served (whose rewrite the first one then
\* overwrites).
C8_HandlersInterleave == pc # "idle" => ENABLED ServeAnother

\* the items whose photo names a file that is not there
Dangling(db, fs) ==
    {item \in Items(db) : item.photo # Null /\ item.photo \notin DOMAIN fs}

\* some item's photo names the file
Referenced(db, file) == \E item \in Items(db) : item.photo = file

\* the server is inside POST /register with a file or inside
\* PUT /inventory/:id/photo, between its two writes
StoresPhoto == pc \in {"register", "putPhoto"} /\ local.item.photo # Null

\* the step belongs to a request that can store a photo
PhotoRequest ==
    \/ req'.method = "POST" /\ req'.route = "/register"
    \/ req'.method = "PUT" /\ req'.route = "/inventory/:id/photo"

\* C9, as amended: POST /register with a file and PUT /inventory/:id/photo
\* write <id>.jpg before they persist the record with photo = "<id>.jpg".
\* If the process stops between the two writes, the file is on disk and
\* db.json is as it was: the file is orphaned unless the item's record named
\* it already (a photo-put that replaces a photo), and no step of these
\* requests leaves a record whose photo names a missing file.
C9_BlobBeforeRecord ==
    [][/\ StoresPhoto =>
              /\ local.item.photo = ToString(local.id) \o ".jpg"
              /\ local.item.photo \in DOMAIN files
       /\ (StoresPhoto /\ (RegisterWriteDB \/ ItemWriteDB)) =>
              /\ local.item \in Items(dbFile')
              /\ local.item.photo \in DOMAIN files'
       /\ (StoresPhoto /\ Stop) =>
              /\ local.item.photo \in DOMAIN files'
              /\ dbFile' = dbFile
              /\ Referenced(dbFile', local.item.photo)
                    <=> Referenced(local.db, local.item.photo)
              /\ pc = "register" => ~Referenced(dbFile', local.item.photo)
       /\ PhotoRequest =>
              Dangling(dbFile', files') \subseteq Dangling(dbFile, files)]_vars

\* the process has stopped inside POST /register: 2.jpg is on disk and no
\* record names it
C9_Witness ==
    /\ pc = "idle"
    /\ req = Request("POST", "/register", NoParam)
    /\ res = NoResponse
    /\ "2.jpg" \in DOMAIN files
    /\ Ids(dbFile) = {1}
    /\ ~Referenced(dbFile, "2.jpg")

\* C9, as claimed: if the process stops between the two writes, the file is
\* on disk and no record references it.
C9_StopLeavesOrphan ==
    [][(StoresPhoto /\ Stop) =>
          /\ local.item.photo \in DOMAIN files'
          /\ ~Referenced(dbFile', local.item.photo)]_vars

====
